---- MODULE Spec2Model ----
(***************************************************************************)
(* A model of the inspiring-quotes HTTP service: the Forismatic quote      *)
(* client (quote/quote.go), the recipient store (recipient/recipient.go)   *)
(* and the handler that composes them (handlers.go).                       *)
(*                                                                         *)
(* Go strings are sequences of one-character strings, so that building and *)
(* parsing a query string are computed character by character.            *)
(***************************************************************************)
EXTENDS Integers, Sequences, FiniteSets, TLC

VARIABLES
    f,           \* quote client under test: the Forismatic value
    lang,        \* argument of the Generate call under test
    transport,   \* what the injected HTTPWrapper does with the request
    generated,   \* outcome of the Generate call under test
    gpc,         \* position of the Generate call under test
    history,     \* the Generate calls made on the client so far
    doCalls,     \* how often the client's HTTPWrapper was invoked
    table,       \* rows of the recipients table, in insertion order
    rows,        \* what the database did with the last SELECT
    fetched,     \* outcome of the last AllRecipients call
    spc,         \* position of the store test
    stmt,        \* the statement the database executed last
    svr,         \* the server value: which collaborators it was built with
    hpc,         \* per request: position of its handler
    router,      \* the route the server's mux.Router holds
    request,     \* per request: the *http.Request
    quote,       \* per request: what its Generate call returned
    recipients,  \* per request: what its AllRecipients call returned
    w,           \* per request: the http.ResponseWriter
    calls        \* per request: collaborator calls made so far

quoteVars == <<f, lang, transport, generated, gpc, history, doCalls>>
storeVars == <<table, rows, fetched, spc, stmt>>
handlerVars == <<svr, router, hpc, request, quote, recipients, w, calls>>

vars == <<f, lang, transport, generated, gpc, history, doCalls, table, rows, fetched, spc, stmt,
          svr, router, hpc, request, quote, recipients, w, calls>>

(***************************************************************************)
(* Bounds                                                                  *)
(***************************************************************************)
MaxLangLen == 2
MaxRows == 2
MaxRequests == 2
MaxCalls == 2

(***************************************************************************)
(* Strings                                                                 *)
(***************************************************************************)
Alphabet == {"n", "2", "&", "=", "%", "+", " ", "#"}

StringsUpTo(n) == UNION {[1..k -> Alphabet] : k \in 0..n}

Langs == StringsUpTo(MaxLangLen)

IndexOf(s, c) ==
    IF \E i \in 1..Len(s) : s[i] = c
    THEN CHOOSE i \in 1..Len(s) : s[i] = c /\ \A j \in 1..(i - 1) : s[j] # c
    ELSE 0

Tail2(s, i) == SubSeq(s, i, Len(s))

(***************************************************************************)
(* net/url query decoding, as the upstream test server and the handler use *)
(* it (req.URL.Query().Get): pairs are split at "&", a pair at its first   *)
(* "=", both halves are unescaped ("+" is a space, "%XX" a byte), a pair   *)
(* whose unescaping fails is dropped, Get returns the first value of a key *)
(* or the empty string.                                                    *)
(***************************************************************************)
HexDigits == {"0", "1", "2", "3", "4", "5", "6", "7", "8", "9",
              "a", "b", "c", "d", "e", "f", "A", "B", "C", "D", "E", "F"}

PercentByte(h1, h2) ==
    CASE <<h1, h2>> = <<"2", "0">> -> " "
      [] <<h1, h2>> = <<"2", "2">> -> "\""
      [] <<h1, h2>> = <<"2", "3">> -> "#"
      [] <<h1, h2>> = <<"2", "5">> -> "%"
      [] <<h1, h2>> = <<"2", "6">> -> "&"
      [] <<h1, h2>> = <<"2", "B">> -> "+"
      [] <<h1, h2>> = <<"3", "D">> -> "="
      [] OTHER -> "?"

RECURSIVE QueryUnescape(_)
QueryUnescape(s) ==
    IF s = <<>> THEN [ok |-> TRUE, val |-> <<>>]
    ELSE IF Head(s) = "%"
    THEN IF Len(s) >= 3 /\ s[2] \in HexDigits /\ s[3] \in HexDigits
         THEN LET rest == QueryUnescape(Tail2(s, 4))
              IN  [ok |-> rest.ok,
                   val |-> <<PercentByte(s[2], s[3])>> \o rest.val]
         ELSE [ok |-> FALSE, val |-> <<>>]
    ELSE LET rest == QueryUnescape(Tail(s))
         IN  [ok |-> rest.ok,
              val |-> <<IF Head(s) = "+" THEN " " ELSE Head(s)>> \o rest.val]

ParsePair(pair) ==
    LET i == IndexOf(pair, "=")
        k == IF i > 0 THEN SubSeq(pair, 1, i - 1) ELSE pair
        v == IF i > 0 THEN Tail2(pair, i + 1) ELSE <<>>
        uk == QueryUnescape(k)
        uv == QueryUnescape(v)
    IN  IF pair = <<>> \/ ~uk.ok \/ ~uv.ok
        THEN <<>>
        ELSE << [key |-> uk.val, value |-> uv.val] >>

RECURSIVE ParseQuery(_)
ParseQuery(query) ==
    IF query = <<>> THEN <<>>
    ELSE LET i == IndexOf(query, "&")
             pair == IF i > 0 THEN SubSeq(query, 1, i - 1) ELSE query
             rest == IF i > 0 THEN Tail2(query, i + 1) ELSE <<>>
         IN  ParsePair(pair) \o ParseQuery(rest)

ValuesOf(values, key) ==
    SelectSeq(values, LAMBDA p : p.key = key)

Get(values, key) ==
    LET vs == ValuesOf(values, key)
    IN  IF vs = <<>> THEN <<>> ELSE vs[1].value

(***************************************************************************)
(* The request line on the wire: "GET <path>?<RawQuery> HTTP/1.1".  The    *)
(* receiving server splits the line at spaces, so a raw query holding a    *)
(* space breaks the line and the upstream reads no parameter at all.       *)
(***************************************************************************)
UpstreamValues(req) ==
    IF IndexOf(req.RawQuery, " ") > 0 THEN <<>> ELSE ParseQuery(req.RawQuery)

(***************************************************************************)
(* quote.Quote and the JSON documents an upstream body can hold            *)
(***************************************************************************)
NoQuote == [present |-> FALSE, Text |-> <<>>, Author |-> <<>>, Lang |-> <<>>]

Absent == [kind |-> "absent", s |-> <<>>]
JNull  == [kind |-> "null", s |-> <<>>]
JNum   == [kind |-> "number", s |-> <<>>]
JStr(s) == [kind |-> "string", s |-> s]

BlaBlaBla == <<"B", "l", "a">>
Bob == <<"B", "o", "b">>

TextValues   == {Absent, JNull, JNum, JStr(BlaBlaBla)}
AuthorValues == {Absent, JNum, JStr(Bob)}
LangValues   == {Absent, JStr(<<"n">>), JStr(<<"r", "u">>)}

JObject(t, a, l) ==
    [kind |-> "object", quoteText |-> t, quoteAuthor |-> a, lang |-> l]

Bodies ==
    {JObject(t, a, l) : t \in TextValues, a \in AuthorValues, l \in LangValues}
    \cup {[kind |-> k, quoteText |-> Absent, quoteAuthor |-> Absent, lang |-> Absent] :
            k \in {"invalid", "null", "scalar"}}

mockForismaticServiceResponse == JObject(JStr(BlaBlaBla), JStr(Bob), Absent)

(***************************************************************************)
(* encoding/json Unmarshal into a Quote: a syntax error for bytes that are *)
(* not JSON; JSON null leaves the record untouched; any other non-object   *)
(* is a type error; in an object an absent or null member leaves its field *)
(* at the zero value, a string member sets it, any other member is a type  *)
(* error.                                                                  *)
(***************************************************************************)
DecodeField(v) ==
    [err |-> v.kind = "number",
     s |-> IF v.kind = "string" THEN v.s ELSE <<>>]

Unmarshal_IgnoreTypeError(body) ==
    IF body.kind = "invalid"
    THEN [err |-> "SyntaxError", Text |-> <<>>, Author |-> <<>>, Lang |-> <<>>]
    ELSE [err |-> "nil",
          Text |-> DecodeField(body.quoteText).s,
          Author |-> DecodeField(body.quoteAuthor).s,
          Lang |-> DecodeField(body.lang).s]

Unmarshal(body) ==
    CASE body.kind = "invalid" ->
            [err |-> "SyntaxError", Text |-> <<>>, Author |-> <<>>, Lang |-> <<>>]
      [] body.kind = "scalar" ->
            [err |-> "UnmarshalTypeError", Text |-> <<>>, Author |-> <<>>, Lang |-> <<>>]
      [] body.kind = "null" ->
            [err |-> "nil", Text |-> <<>>, Author |-> <<>>, Lang |-> <<>>]
      [] body.kind = "object" ->
            LET t == DecodeField(body.quoteText)
                a == DecodeField(body.quoteAuthor)
                l == DecodeField(body.lang)
            IN  [err |-> IF t.err \/ a.err \/ l.err
                         THEN "UnmarshalTypeError" ELSE "nil",
                 Text |-> t.s, Author |-> a.s, Lang |-> l.s]

(***************************************************************************)
(* The injected HTTPWrapper: Do fails, or returns a response, or (a test   *)
(* double) returns neither a response nor an error.                        *)
(***************************************************************************)
StatusOK == 200
StatusInternalServerError == 500

NoBody == [kind |-> "invalid", quoteText |-> Absent, quoteAuthor |-> Absent, lang |-> Absent]

DoError  == [kind |-> "error", StatusCode |-> 0, Body |-> NoBody, readErr |-> FALSE]
DoNilNil == [kind |-> "nil", StatusCode |-> 0, Body |-> NoBody, readErr |-> FALSE]
Response(code, body, readErr) ==
    [kind |-> "response", StatusCode |-> code, Body |-> body, readErr |-> readErr]

StatusCodes == {StatusOK, 404, StatusInternalServerError}

TransportOutcomes ==
    {DoError, DoNilNil}
    \cup {Response(c, b, FALSE) : c \in StatusCodes, b \in Bodies}
    \cup {Response(c, mockForismaticServiceResponse, TRUE) : c \in StatusCodes}

(***************************************************************************)
(* Forismatic.Generate                                                     *)
(***************************************************************************)
QueryPrefix ==
    <<"m", "e", "t", "h", "o", "d", "=", "g", "e", "t", "Q", "u", "o", "t", "e", "&",
      "f", "o", "r", "m", "a", "t", "=", "j", "s", "o", "n", "&",
      "l", "a", "n", "g", "=">>

NoRequest == [sent |-> FALSE, Method |-> "", RawQuery |-> <<>>]

\* http.NewRequest("GET", f.URL, nil) followed by the assignment of RawQuery
NewRequest(l) == [sent |-> TRUE, Method |-> "GET", RawQuery |-> QueryPrefix \o l]

NotOK_ServerErrorsOnly(resp) == resp.kind # "nil" /\ resp.StatusCode >= 500

\* the status test made on the response Do returned
NotOK(resp) == resp.kind # "nil" /\ resp.StatusCode # StatusOK

SetLang_KeepDecoded(q, l) == q

\* quote.Lang = lang
SetLang(q, l) == [q EXCEPT !.Lang = l]

GenerateResult(q, e, p, req, read, parsed) ==
    [quote |-> q, err |-> e, panicked |-> p, req |-> req,
     bodyRead |-> read, bodyParsed |-> parsed, bodyClosed |-> FALSE]

Generate(client, l, resp) ==
    IF ~client.urlParses
    THEN GenerateResult(NoQuote, "NewRequestError", FALSE, NoRequest, FALSE, FALSE)
    ELSE LET req == NewRequest(l) IN
         IF resp.kind = "error"
         THEN GenerateResult(NoQuote, "TransportError", FALSE, req, FALSE, FALSE)
         ELSE IF NotOK(resp)
         THEN GenerateResult(NoQuote, "Not OK response status", FALSE, req, FALSE, FALSE)
         ELSE IF resp.kind = "nil"
         THEN \* resp.Body on a nil response: nil pointer dereference
              GenerateResult(NoQuote, "nil", TRUE, req, FALSE, FALSE)
         ELSE IF resp.readErr
         THEN GenerateResult(NoQuote, "ReadError", FALSE, req, TRUE, FALSE)
         ELSE LET u == Unmarshal(resp.Body) IN
              IF u.err # "nil"
              THEN GenerateResult(NoQuote, u.err, FALSE, req, TRUE, TRUE)
              ELSE GenerateResult(
                       SetLang([present |-> TRUE, Text |-> u.Text,
                                Author |-> u.Author, Lang |-> u.Lang], l),
                       "nil", FALSE, req, TRUE, TRUE)


NotCalled == GenerateResult(NoQuote, "nil", FALSE, NoRequest, FALSE, FALSE)

\* no Generate call is under test
IdleGenerate ==
    /\ f = [urlParses |-> TRUE]
    /\ lang = <<>>
    /\ transport = DoError
    /\ generated = NotCalled
    /\ gpc = "call"
    /\ history = <<>>
    /\ doCalls = 0

(***************************************************************************)
(* recipient.Recipient, the recipients table and the cursor of a SELECT    *)
(***************************************************************************)
SqlNull == <<"NULL", 0>>

UserName(i) == <<"user", i>>
UserMail(i) == <<"user@testmail.com", i>>

\* a row of the table: well formed, or one whose name column is NULL
TableRows ==
    UNION {{[id |-> i, name |-> n, email |-> UserMail(i)] : n \in {UserName(i), SqlNull}} :
             i \in 1..MaxRows}

Range(s) == {s[i] : i \in 1..Len(s)}

Orders(tbl) ==
    {p \in [1..Len(tbl) -> Range(tbl)] : \A x \in Range(tbl) : \E i \in 1..Len(tbl) : p[i] = x}

QueryError == [err |-> TRUE, delivered |-> <<>>, rowsErr |-> FALSE]

\* DB.Query fails, or opens a cursor that delivers the rows of the table in
\* the store's scan order until the result set ends or the cursor fails.
QueryOutcomes(tbl) ==
    {QueryError}
    \cup {o \in {[err |-> FALSE, delivered |-> SubSeq(p, 1, k), rowsErr |-> e] :
                    p \in Orders(tbl), k \in 0..Len(tbl), e \in BOOLEAN} :
            Len(o.delivered) = Len(tbl) \/ o.rowsErr}

NilSlice == [nil |-> TRUE, elems |-> <<>>]

\* rows.Scan(&r.ID, &r.Name, &r.Email)
Scan(row) ==
    [err |-> row.name = SqlNull \/ row.email = SqlNull,
     r |-> [ID |-> row.id, Name |-> row.name, Email |-> row.email]]

\* append on a slice
AppendSlice(slice, x) == [nil |-> FALSE, elems |-> Append(slice.elems, x)]

RECURSIVE ScanRows_StopAtFailure(_, _)
ScanRows_StopAtFailure(cursor, slice) ==
    IF cursor = <<>> THEN slice
    ELSE LET scanned == Scan(Head(cursor))
         IN  IF scanned.err THEN slice
             ELSE ScanRows_StopAtFailure(Tail(cursor), AppendSlice(slice, scanned.r))

\* for rows.Next() { ... }
RECURSIVE ScanRows(_, _)
ScanRows(cursor, slice) ==
    IF cursor = <<>> THEN slice
    ELSE LET scanned == Scan(Head(cursor))
         IN  ScanRows(Tail(cursor),
                      IF ~scanned.err THEN AppendSlice(slice, scanned.r)
                      ELSE slice)

FetchResult(rs, e, nexts, closes) ==
    [recipients |-> rs, err |-> e, nexts |-> nexts, closes |-> closes]

AllRecipients_DeferBeforeCheck(q) ==
    IF q.err THEN FetchResult(NilSlice, "QueryError", 0, 1)
    ELSE FetchResult(ScanRows(q.delivered, NilSlice), "nil", Len(q.delivered), 1)

AllRecipients_CloseWhenExhausted(q) ==
    IF q.err THEN FetchResult(NilSlice, "QueryError", 0, 0)
    ELSE FetchResult(ScanRows(q.delivered, NilSlice), "nil", Len(q.delivered),
                     IF q.rowsErr THEN 0 ELSE 1)

\* Persistence.AllRecipients
AllRecipients(q) ==
    IF q.err THEN FetchResult(NilSlice, "QueryError", 0, 0)
    ELSE FetchResult(ScanRows(q.delivered, NilSlice), "nil", Len(q.delivered), 1)

(***************************************************************************)
(* The store test: the table is truncated, rows are inserted, and          *)
(* AllRecipients is called (TestAllRecipients)                             *)
(***************************************************************************)
NotFetched == FetchResult(NilSlice, "nil", 0, 0)

Statement(text, nargs) == [text |-> text, nargs |-> nargs]

NoStatement == Statement("", 0)

InsertRecipient ==
    Statement("INSERT INTO recipients (id, name, email) VALUES ($1, $2, $3);", 3)

TruncateRecipients == Statement("TRUNCATE TABLE recipients", 0)

SelectRecipients_Destructive == Statement("TRUNCATE TABLE recipients", 0)

\* p.DB.Query("select * from recipients")
SelectRecipients == Statement("select * from recipients", 0)

\* what the database makes of the table when it executes a statement that
\* takes no arguments
Executed(s, tbl) == IF s.text = "TRUNCATE TABLE recipients" THEN <<>> ELSE tbl

InitStore ==
    /\ table = <<>>
    /\ rows = QueryError
    /\ fetched = NotFetched
    /\ spc = "preset"
    /\ stmt = NoStatement

\* tx.Exec("INSERT INTO recipients (id, name, email) VALUES ($1, $2, $3);")
Insert(row) ==
    /\ \A i \in 1..Len(table) : table[i].id # row.id
    /\ table' = Append(table, row)
    /\ stmt' = InsertRecipient
    /\ spc' = "preset"
    /\ UNCHANGED <<rows, fetched>>
    /\ UNCHANGED quoteVars
    /\ UNCHANGED handlerVars

\* db.Exec("TRUNCATE TABLE recipients")
clearDB ==
    /\ table # <<>>
    /\ table' = Executed(TruncateRecipients, table)
    /\ stmt' = TruncateRecipients
    /\ spc' = "preset"
    /\ UNCHANGED <<rows, fetched>>
    /\ UNCHANGED quoteVars
    /\ UNCHANGED handlerVars

CallAllRecipients ==
    /\ \E q \in QueryOutcomes(table) :
          /\ rows' = q
          /\ fetched' = AllRecipients(q)
    /\ spc' = "returned"
    /\ stmt' = SelectRecipients
    /\ table' = Executed(SelectRecipients, table)
    /\ UNCHANGED quoteVars
    /\ UNCHANGED handlerVars



(***************************************************************************)
(* The server and its handler                                              *)
(***************************************************************************)
Requests == 1..MaxRequests

\* func main: a Forismatic client and no recipients fetcher
mainServer == [quoteGenerator |-> "Forismatic", recipientsFetcher |-> "nil"]

\* TestHandleQuotes: both collaborators are testify mocks
mockServer == [quoteGenerator |-> "MockQuoteGenerator",
               recipientsFetcher |-> "MockRecipientsFetcher"]

\* TestMain and TestQuoteAPI: a Forismatic client and a Persistence
testServer == [quoteGenerator |-> "Forismatic", recipientsFetcher |-> "Persistence"]

Servers == {mainServer, mockServer, testServer}

\* what a collaborator hands back to the handler
Returns(q, e, p) == [quote |-> q, err |-> e, panicked |-> p]

EmptyQuote == [present |-> TRUE, Text |-> <<>>, Author |-> <<>>, Lang |-> <<>>]

\* mockQuoteGenerator.On("Generate", "en").Return(...)
MockQuoteReturns ==
    {Returns(EmptyQuote, "nil", FALSE), Returns(NoQuote, "sample error", FALSE)}

ServedTransport ==
    {DoError, DoNilNil,
     Response(StatusOK, mockForismaticServiceResponse, FALSE),
     Response(StatusOK, JObject(JStr(BlaBlaBla), JStr(Bob), JStr(<<"r", "u">>)), FALSE),
     Response(StatusInternalServerError, mockForismaticServiceResponse, FALSE)}

\* s.quoteGenerator.Generate(lang)
GenerateReturns(s, l) ==
    IF s.quoteGenerator = "Forismatic"
    THEN {LET g == Generate([urlParses |-> TRUE], l, t)
          IN  Returns(g.quote, g.err, g.panicked) : t \in ServedTransport}
    ELSE MockQuoteReturns

Fetch(rs, e) == [recipients |-> rs, err |-> e]

\* mockRecipientsFetcher.On("AllRecipients").Return(...)
MockFetchReturns ==
    {Fetch([nil |-> FALSE, elems |-> <<>>], "nil"), Fetch(NilSlice, "sample error")}

\* s.recipientsFetcher.AllRecipients()
FetchReturns(s, tbl) ==
    IF s.recipientsFetcher = "Persistence"
    THEN {LET a == AllRecipients(q) IN Fetch(a.recipients, a.err) : q \in QueryOutcomes(tbl)}
    ELSE MockFetchReturns

(***************************************************************************)
(* encoding/json Marshal of a HandleQuoteResponse: the members are named   *)
(* by the json tags; a nil pointer and a nil slice are written as null.    *)
(***************************************************************************)
JsonNull == [kind |-> "null"]

MarshalQuote(q) ==
    IF ~q.present THEN JsonNull
    ELSE [kind |-> "object", quoteText |-> q.Text, quoteAuthor |-> q.Author, lang |-> q.Lang]

MarshalRecipient(x) == [id |-> x.ID, name |-> x.Name, email |-> x.Email]

MarshalRecipients(rs) ==
    IF rs.nil THEN JsonNull
    ELSE [kind |-> "array",
          elems |-> [i \in 1..Len(rs.elems) |-> MarshalRecipient(rs.elems[i])]]

HandleQuoteResponse_QuoteOnly(q, rs) == [Quote |-> q, Recipients |-> NilSlice]

\* hqr := HandleQuoteResponse{Quote: quote, Recipients: recipients}
HandleQuoteResponse(q, rs) == [Quote |-> q, Recipients |-> rs]

Marshal(hqr) ==
    [quote |-> MarshalQuote(hqr.Quote), recipients |-> MarshalRecipients(hqr.Recipients)]

(***************************************************************************)
(* http.ResponseWriter: the status line and the body bytes written so far  *)
(***************************************************************************)
NoBytes == <<>>

NewRecorder == [Code |-> 0, headerWrites |-> 0, Body |-> NoBytes]

\* only the first status written counts
WriteHeader(rw, code) ==
    [rw EXCEPT !.Code = IF rw.Code = 0 THEN code ELSE rw.Code,
               !.headerWrites = rw.headerWrites + 1]

\* writing body bytes before any status implies status 200
Write(rw, resp) ==
    [rw EXCEPT !.Code = IF rw.Code = 0 THEN StatusOK ELSE rw.Code,
               !.Body = Append(rw.Body, resp)]

(***************************************************************************)
(* handleQuotes, one step per collaborator call                            *)
(***************************************************************************)
ServedQueries ==
    {<<>>,
     <<"l", "a", "n", "g", "=">>,
     <<"l", "a", "n", "g", "=", "e", "n", "&", "l", "a", "n", "g", "=", "r", "u">>}

\* http.NewRequest(method, path, nil) with req.URL.RawQuery set
HTTPRequest(m, pth, q) == [Method |-> m, Path |-> pth, RawQuery |-> q]

NoHTTPRequest == HTTPRequest("", "", <<>>)

\* a server whose routes() was never called
NoRouter == [path |-> "", handler |-> "none"]

NoReturn == Returns(NoQuote, "nil", FALSE)
NoFetch == Fetch(NilSlice, "nil")
NoCalls == [Generate |-> 0, AllRecipients |-> 0, lang |-> <<>>]

IdleHandler ==
    /\ svr = mainServer
    /\ router = NoRouter
    /\ hpc = [i \in Requests |-> "idle"]
    /\ request = [i \in Requests |-> NoHTTPRequest]
    /\ quote = [i \in Requests |-> NoReturn]
    /\ recipients = [i \in Requests |-> NoFetch]
    /\ w = [i \in Requests |-> NewRecorder]
    /\ calls = [i \in Requests |-> NoCalls]

LangOf_LastValue(req) ==
    LET vs == ValuesOf(ParseQuery(req.RawQuery), <<"l", "a", "n", "g">>)
    IN  IF vs = <<>> THEN <<>> ELSE vs[Len(vs)].value

\* lang := r.URL.Query().Get("lang")
LangOf(req) == Get(ParseQuery(req.RawQuery), <<"l", "a", "n", "g">>)

GenerateFailed_Never(g) == FALSE

\* if err != nil, after Generate
GenerateFailed(g) == g.err # "nil"

FetchFailed_Never(a) == FALSE

\* if err != nil, after AllRecipients
FetchFailed(a) == a.err # "nil"

FailureResponse_WithMessage(rw, e) ==
    Write(WriteHeader(rw, StatusInternalServerError), e)

\* w.WriteHeader(http.StatusInternalServerError); return
FailureResponse(rw, e) == WriteHeader(rw, StatusInternalServerError)

Runnable_OneAtATime(i) ==
    \A j \in Requests \ {i} : hpc[j] \notin {"Generate", "AllRecipients"}

\* every request runs in a goroutine of its own, and the handler acquires
\* no lock and reads no channel: its next step waits for nothing
Runnable(i) == TRUE

ServeHTTP_FanOut(i, q) ==
    /\ hpc[i] = "idle"
    /\ request' = [request EXCEPT ![i] = HTTPRequest("GET", "/quote", q)]
    /\ calls' = [calls EXCEPT ![i] = [Generate |-> 1, AllRecipients |-> 1,
                                      lang |-> LangOf(HTTPRequest("GET", "/quote", q))]]
    /\ hpc' = [hpc EXCEPT ![i] = "Generate"]
    /\ UNCHANGED <<svr, router, quote, recipients, w>>
    /\ UNCHANGED <<quoteVars, storeVars>>

\* the handler is entered with a GET /quote request and calls Generate
ServeHTTP(i, q) ==
    /\ hpc[i] = "idle"
    /\ request' = [request EXCEPT ![i] = HTTPRequest("GET", "/quote", q)]
    /\ calls' = [calls EXCEPT ![i].Generate = @ + 1,
                              ![i].lang = LangOf(HTTPRequest("GET", "/quote", q))]
    /\ hpc' = [hpc EXCEPT ![i] = "Generate"]
    /\ UNCHANGED <<svr, router, quote, recipients, w>>
    /\ UNCHANGED <<quoteVars, storeVars>>

\* Generate returns: 500 on an error, otherwise AllRecipients is called
GenerateReturned(i, g) ==
    /\ hpc[i] = "Generate"
    /\ Runnable(i)
    /\ quote' = [quote EXCEPT ![i] = g]
    /\ IF g.panicked
       THEN /\ hpc' = [hpc EXCEPT ![i] = "panic"]
            /\ UNCHANGED <<w, calls>>
       ELSE IF GenerateFailed(g)
       THEN /\ w' = [w EXCEPT ![i] = FailureResponse(@, g.err)]
            /\ hpc' = [hpc EXCEPT ![i] = "done"]
            /\ UNCHANGED calls
       ELSE IF svr.recipientsFetcher = "nil"
       THEN \* a method call on a nil interface value
            /\ hpc' = [hpc EXCEPT ![i] = "panic"]
            /\ UNCHANGED <<w, calls>>
       ELSE /\ calls' = [calls EXCEPT ![i].AllRecipients = @ + 1]
            /\ hpc' = [hpc EXCEPT ![i] = "AllRecipients"]
            /\ UNCHANGED w
    /\ UNCHANGED <<svr, router, request, recipients>>
    /\ UNCHANGED <<quoteVars, storeVars>>

QuoteOf_Shared(i) == quote[1].quote

\* Quote: quote, the local variable of this run of the handler
QuoteOf(i) == quote[i].quote

\* AllRecipients returns: 500 on an error, otherwise 200 and the envelope
AllRecipientsReturned(i, a) ==
    /\ hpc[i] = "AllRecipients"
    /\ Runnable(i)
    /\ recipients' = [recipients EXCEPT ![i] = a]
    /\ IF FetchFailed(a)
       THEN w' = [w EXCEPT ![i] = FailureResponse(@, a.err)]
       ELSE LET hqr == HandleQuoteResponse(QuoteOf(i), a.recipients)
                resp == Marshal(hqr)
            IN  w' = [w EXCEPT ![i] = Write(WriteHeader(@, StatusOK), resp)]
    /\ hpc' = [hpc EXCEPT ![i] = "done"]
    /\ UNCHANGED <<svr, router, request, quote, calls>>
    /\ UNCHANGED <<quoteVars, storeVars>>

ServedTables ==
    {<<>>,
     <<[id |-> 1, name |-> UserName(1), email |-> UserMail(1)]>>,
     <<[id |-> 2, name |-> UserName(2), email |-> UserMail(2)],
       [id |-> 1, name |-> UserName(1), email |-> UserMail(1)]>>}

Init ==
    /\ IdleGenerate
    /\ table \in ServedTables
    /\ rows = QueryError
    /\ fetched = NotFetched
    /\ spc = "preset"
    /\ stmt = NoStatement
    /\ svr \in Servers
    /\ router = NoRouter
    /\ hpc = [i \in Requests |-> "idle"]
    /\ request = [i \in Requests |-> NoHTTPRequest]
    /\ quote = [i \in Requests |-> NoReturn]
    /\ recipients = [i \in Requests |-> NoFetch]
    /\ w = [i \in Requests |-> NewRecorder]
    /\ calls = [i \in Requests |-> NoCalls]

Next ==
    \/ \E i \in Requests, q \in ServedQueries : ServeHTTP(i, q)
    \/ \E i \in Requests :
          \E g \in GenerateReturns(svr, calls[i].lang) : GenerateReturned(i, g)
    \/ \E i \in Requests :
          \E a \in FetchReturns(svr, table) : AllRecipientsReturned(i, a)

Spec == Init /\ [][Next]_vars

\* the collaborator calls of request i return
CallsReturn(i) ==
    \/ \E g \in GenerateReturns(svr, calls[i].lang) : GenerateReturned(i, g)
    \/ \E a \in FetchReturns(svr, table) : AllRecipientsReturned(i, a)

PendingQueries == {<<"l", "a", "n", "g", "=", "e", "n">>}

NextOwnCallsReturn ==
    \/ \E i \in Requests, q \in PendingQueries : ServeHTTP(i, q)
    \/ \E i \in Requests : CallsReturn(i)

\* the handler where the calls of request 1 return and those of the other
\* requests may stay pending for ever
SpecOwnCallsReturn == Init /\ [][NextOwnCallsReturn]_vars /\ WF_vars(CallsReturn(1))

(***************************************************************************)
(* Requests that reach the handler through the server's router, as         *)
(* TestQuoteAPI and http.ListenAndServe deliver them                       *)
(***************************************************************************)
\* routes.go: s.router.HandleFunc("/quote", QuotesHandler)
routes == [path |-> "/quote", handler |-> "QuotesHandler"]

\* routers.go of step 2: s.router.HandleFunc("/quote", s.handleQuotes())
routesStep2 == [path |-> "/quote", handler |-> "handleQuotes"]

RouteTables == {routes, routesStep2}

\* func QuotesHandler: the status and nothing else
QuotesHandler(rw) == WriteHeader(rw, StatusOK)

\* the router's answer when no route matches the path
NotFound(rw) == Write(WriteHeader(rw, 404), "404 page not found")

ServedMethods == {"GET", "POST"}

ServedPaths == {"/quote", "/"}

RoutedQueries == {<<"l", "a", "n", "g", "=", "e", "n">>}

\* router.ServeHTTP(rr, req): a route registered with HandleFunc and no
\* Methods matcher matches its path for every request method
RouterServeHTTP(i, m, pth, q) ==
    /\ hpc[i] = "idle"
    /\ request' = [request EXCEPT ![i] = HTTPRequest(m, pth, q)]
    /\ IF pth # router.path
       THEN /\ w' = [w EXCEPT ![i] = NotFound(@)]
            /\ hpc' = [hpc EXCEPT ![i] = "done"]
            /\ UNCHANGED calls
       ELSE IF router.handler = "QuotesHandler"
       THEN /\ w' = [w EXCEPT ![i] = QuotesHandler(@)]
            /\ hpc' = [hpc EXCEPT ![i] = "done"]
            /\ UNCHANGED calls
       ELSE /\ calls' = [calls EXCEPT ![i].Generate = @ + 1,
                                      ![i].lang = LangOf(HTTPRequest(m, pth, q))]
            /\ hpc' = [hpc EXCEPT ![i] = "Generate"]
            /\ UNCHANGED w
    /\ UNCHANGED <<svr, router, quote, recipients>>
    /\ UNCHANGED <<quoteVars, storeVars>>

\* the servers that call routes(): func main and TestMain
RoutedServers == {mainServer, testServer}

InitRouter ==
    /\ IdleGenerate
    /\ table \in ServedTables
    /\ rows = QueryError
    /\ fetched = NotFetched
    /\ spc = "preset"
    /\ stmt = NoStatement
    /\ svr \in RoutedServers
    /\ router \in RouteTables
    /\ hpc = [i \in Requests |-> "idle"]
    /\ request = [i \in Requests |-> NoHTTPRequest]
    /\ quote = [i \in Requests |-> NoReturn]
    /\ recipients = [i \in Requests |-> NoFetch]
    /\ w = [i \in Requests |-> NewRecorder]
    /\ calls = [i \in Requests |-> NoCalls]

NextRouter ==
    \/ \E i \in Requests, m \in ServedMethods, pth \in ServedPaths, q \in RoutedQueries :
          RouterServeHTTP(i, m, pth, q)
    \/ \E i \in Requests :
          \E g \in GenerateReturns(svr, calls[i].lang) : GenerateReturned(i, g)
    \/ \E i \in Requests :
          \E a \in FetchReturns(svr, table) : AllRecipientsReturned(i, a)

SpecRouter == InitRouter /\ [][NextRouter]_vars

(***************************************************************************)
(* One Generate call on a client, as TestForismatic_Generate makes it      *)
(***************************************************************************)
InitGenerate ==
    /\ f \in {[urlParses |-> TRUE], [urlParses |-> FALSE]}
    /\ lang \in Langs
    /\ transport \in TransportOutcomes
    /\ generated = NotCalled
    /\ gpc = "call"
    /\ history = <<>>
    /\ doCalls = 0
    /\ InitStore
    /\ IdleHandler

CallGenerate ==
    /\ gpc = "call"
    /\ generated' = Generate(f, lang, transport)
    /\ gpc' = IF generated'.panicked THEN "panic" ELSE "returned"
    /\ UNCHANGED <<f, lang, transport, history, doCalls>>
    /\ UNCHANGED storeVars
    /\ UNCHANGED handlerVars

NextGenerate == CallGenerate

SpecGenerate == InitGenerate /\ [][NextGenerate]_vars

(***************************************************************************)
(* A sequence of Generate calls on one client whose transport double       *)
(* counts its invocations                                                  *)
(***************************************************************************)
CalledLangs == {<<>>, <<"e", "n">>}

BobBlaBlaBla == JObject(JStr(Bob), JStr(BlaBlaBla), Absent)

ScriptedTransport ==
    {DoError, DoNilNil,
     Response(StatusOK, mockForismaticServiceResponse, FALSE),
     Response(StatusOK, BobBlaBlaBla, FALSE),
     Response(StatusOK, NoBody, FALSE),
     Response(StatusInternalServerError, mockForismaticServiceResponse, FALSE)}

Called(l, t, g) == [lang |-> l, transport |-> t, result |-> g]

GenerateOn_Cached(hist, client, l, resp) ==
    IF \E k \in 1..Len(hist) : hist[k].lang = l /\ hist[k].result.quote.present
    THEN LET k == CHOOSE k \in 1..Len(hist) : hist[k].lang = l /\ hist[k].result.quote.present
         IN  [hist[k].result EXCEPT !.req = NoRequest]
    ELSE Generate(client, l, resp)

\* a Forismatic holds its URL and its Client and nothing of earlier calls
GenerateOn(hist, client, l, resp) == Generate(client, l, resp)

\* the next Generate call on the client
GenerateAgain(l, t) ==
    /\ gpc # "panic"
    /\ Len(history) < MaxCalls
    /\ LET g == GenerateOn(history, f, l, t) IN
          /\ generated' = g
          /\ history' = Append(history, Called(l, t, g))
          /\ doCalls' = doCalls + (IF g.req.sent THEN 1 ELSE 0)
          /\ gpc' = IF g.panicked THEN "panic" ELSE "returned"
    /\ lang' = l
    /\ transport' = t
    /\ UNCHANGED f
    /\ UNCHANGED storeVars
    /\ UNCHANGED handlerVars

InitClient == IdleGenerate /\ InitStore /\ IdleHandler

NextClient == \E l \in CalledLangs, t \in ScriptedTransport : GenerateAgain(l, t)

SpecClient == InitClient /\ [][NextClient]_vars

InitRecipients == InitStore /\ IdleGenerate /\ IdleHandler

NextRecipients ==
    \/ \E row \in TableRows : Insert(row)
    \/ clearDB
    \/ CallAllRecipients

SpecRecipients == InitRecipients /\ [][NextRecipients]_vars

(***************************************************************************)
(* Properties of handleQuotes (checked under Spec)                         *)
(***************************************************************************)
Done(i) == hpc[i] = "done"

GenerateSucceeded(i) ==
    /\ hpc[i] \notin {"idle", "Generate"}
    /\ ~quote[i].panicked
    /\ quote[i].err = "nil"

GenerateErred(i) ==
    /\ hpc[i] \notin {"idle", "Generate"}
    /\ ~quote[i].panicked
    /\ quote[i].err # "nil"

FetcherReturned(i) == Done(i) /\ calls[i].AllRecipients = 1

Arrived(i) == hpc[i] # "idle"

\* the response carries a quote and recipients body
CarriesEnvelope(rw) ==
    /\ rw.Code = StatusOK
    /\ Len(rw.Body) = 1
    /\ DOMAIN rw.Body[1] = {"quote", "recipients"}

\* the members of a JSON array; a JSON null holds none
Elements(v) == IF v.kind = "array" THEN v.elems ELSE <<>>

\* C1: when Generate returns a quote without error and AllRecipients returns
\* a sequence without error, the handler responds 200 with one JSON object
\* of exactly the members quote (quoteText, quoteAuthor and lang of the
\* generated quote) and recipients (id, name and email of every recipient
\* returned, in the returned order).
C1_BothSucceed ==
    \A i \in Requests :
        (GenerateSucceeded(i) /\ quote[i].quote.present
            /\ FetcherReturned(i) /\ recipients[i].err = "nil") =>
            /\ w[i].Code = StatusOK
            /\ Len(w[i].Body) = 1
            /\ LET body == w[i].Body[1]
                   got == Elements(body.recipients)
                   want == recipients[i].recipients.elems
               IN  /\ DOMAIN body = {"quote", "recipients"}
                   /\ body.quote = [kind |-> "object",
                                    quoteText |-> quote[i].quote.Text,
                                    quoteAuthor |-> quote[i].quote.Author,
                                    lang |-> quote[i].quote.Lang]
                   /\ Len(got) = Len(want)
                   /\ \A k \in 1..Len(want) :
                        got[k] = [id |-> want[k].ID, name |-> want[k].Name,
                                  email |-> want[k].Email]

C1_Witness ==
    \E i \in Requests :
        /\ GenerateSucceeded(i) /\ FetcherReturned(i)
        /\ quote[i].quote.Text = BlaBlaBla
        /\ recipients[i].err = "nil"
        /\ Len(recipients[i].recipients.elems) = 2
        /\ w[i].Code = StatusOK

\* C2: when Generate returns an error, the handler responds 500, writes no
\* body bytes, and AllRecipients is never invoked during that request.
C2_QuoteFailure ==
    \A i \in Requests :
        GenerateErred(i) =>
            /\ Done(i)
            /\ w[i].Code = StatusInternalServerError
            /\ w[i].Body = NoBytes
            /\ calls[i].AllRecipients = 0

C2_Witness ==
    \E i \in Requests :
        /\ GenerateErred(i) /\ Done(i)
        /\ svr = testServer
        /\ quote[i].err = "Not OK response status"
        /\ w[i].Code = StatusInternalServerError

\* C3: when Generate succeeds and AllRecipients returns an error, the handler
\* responds 500 and writes no body bytes.
C3_RecipientsFailure ==
    \A i \in Requests :
        (GenerateSucceeded(i) /\ FetcherReturned(i) /\ recipients[i].err # "nil") =>
            /\ w[i].Code = StatusInternalServerError
            /\ w[i].Body = NoBytes

C3_Witness ==
    \E i \in Requests :
        /\ GenerateSucceeded(i) /\ FetcherReturned(i)
        /\ quote[i].quote.Text = BlaBlaBla
        /\ recipients[i].err = "QueryError"
        /\ w[i].Code = StatusInternalServerError

(***************************************************************************)
(* Properties of Generate (checked under SpecGenerate)                     *)
(***************************************************************************)
Returned == gpc = "returned"

\* the transport was handed the request and answered it with a response
Answered == generated.req.sent /\ transport.kind = "response"

OK200 == Answered /\ transport.StatusCode = StatusOK

Decodes == OK200 /\ ~transport.readErr /\ Unmarshal(transport.Body).err = "nil"

\* C4: for every language code L and every upstream 200 response whose body
\* decodes, the quote Generate(L) returns has its language field equal to L,
\* also when the body carries a lang member of its own with another value.
C4_LangIsRequested ==
    (Returned /\ Decodes) =>
        /\ generated.err = "nil"
        /\ generated.quote.present
        /\ generated.quote.Lang = lang

C4_Witness ==
    /\ Returned /\ Decodes
    /\ transport.Body.kind = "object"
    /\ transport.Body.lang.kind = "string"
    /\ transport.Body.lang.s # lang
    /\ generated.quote.Lang = lang

\* C5: for every response with a status code other than 200, whatever its
\* body, Generate returns an error and no quote, and the body is neither read
\* nor parsed.
C5_NotOKIsError ==
    (Returned /\ Answered /\ transport.StatusCode # StatusOK) =>
        /\ generated.err # "nil"
        /\ ~generated.quote.present
        /\ ~generated.bodyRead
        /\ ~generated.bodyParsed

C5_Witness ==
    /\ Returned /\ Answered
    /\ transport.StatusCode = 404
    /\ transport.Body = mockForismaticServiceResponse
    /\ generated.err = "Not OK response status"

LacksQuoteField(body) ==
    \/ body.kind \in {"null", "scalar"}
    \/ body.kind = "object"
         /\ (body.quoteText.kind = "absent" \/ body.quoteAuthor.kind = "absent")

Undecodable(body) ==
    \/ body.kind \in {"invalid", "scalar"}
    \/ body.kind = "object"
         /\ "number" \in {body.quoteText.kind, body.quoteAuthor.kind, body.lang.kind}

StringOrEmpty(v) == IF v.kind = "string" THEN v.s ELSE <<>>

C7_QuoteXorError ==
    gpc # "call" =>
        /\ Returned
        /\ generated.quote.present <=> generated.err = "nil"

\* C8: for every language code L the request handed to the transport uses
\* GET and a query from which the upstream reads method=getQuote exactly
\* once, format=json exactly once and a lang parameter whose decoded value
\* is L.
C8_UpstreamReadsLang ==
    (gpc # "call" /\ generated.req.sent) =>
        LET values == UpstreamValues(generated.req) IN
        /\ generated.req.Method = "GET"
        /\ ValuesOf(values, <<"m", "e", "t", "h", "o", "d">>)
              = << [key |-> <<"m", "e", "t", "h", "o", "d">>,
                    value |-> <<"g", "e", "t", "Q", "u", "o", "t", "e">>] >>
        /\ ValuesOf(values, <<"f", "o", "r", "m", "a", "t">>)
              = << [key |-> <<"f", "o", "r", "m", "a", "t">>,
                    value |-> <<"j", "s", "o", "n">>] >>
        /\ ValuesOf(values, <<"l", "a", "n", "g">>) # <<>>
        /\ Get(values, <<"l", "a", "n", "g">>) = lang

(***************************************************************************)
(* Properties of AllRecipients (checked under SpecRecipients)              *)
(***************************************************************************)
Fetched == spc = "returned"

AsRecipient(row) == [ID |-> row.id, Name |-> row.name, Email |-> row.email]

WellFormed(tbl) == \A i \in 1..Len(tbl) : ~Scan(tbl[i]).err

\* C9: when the query succeeds, AllRecipients returns no error and a result
\* that holds every row of the recipients table exactly once (nothing when
\* the table is empty), whatever the insertion order.  Stated here for the
\* tables the schema allows, whose rows all scan.
C9_ReturnsEveryRow ==
    (Fetched /\ ~rows.err /\ WellFormed(table)) =>
        /\ fetched.err = "nil"
        /\ Len(fetched.recipients.elems) = Len(table)
        /\ Range(fetched.recipients.elems) = {AsRecipient(x) : x \in Range(table)}

\* C10: when the SELECT cannot be executed or the cursor cannot be opened,
\* AllRecipients returns the error with a nil sequence, iterates nothing and
\* closes no cursor.
C10_QueryErrorReturned ==
    (Fetched /\ rows.err) =>
        /\ fetched.err = "QueryError"
        /\ fetched.recipients = NilSlice
        /\ fetched.nexts = 0
        /\ fetched.closes = 0

C10_Witness ==
    /\ Fetched /\ rows.err
    /\ Len(table) >= 1
    /\ fetched.err = "QueryError"

Scannable(row) == row.name # SqlNull /\ row.email # SqlNull

\* C11: for every cursor content, the sequence AllRecipients returns is
\* exactly the subsequence of the cursor's rows whose three-column scan
\* succeeded, in cursor order: a failing row is dropped, iteration goes on
\* with the next row (every delivered row is visited), and the call still
\* returns no error.
C11_SkipsUnscannableRows ==
    (Fetched /\ ~rows.err) =>
        LET kept == SelectSeq(rows.delivered, Scannable) IN
        /\ fetched.err = "nil"
        /\ fetched.nexts = Len(rows.delivered)
        /\ fetched.recipients.elems = [i \in 1..Len(kept) |-> AsRecipient(kept[i])]

\* a row that does not scan was delivered before one that does
C11_Witness ==
    /\ Fetched /\ ~rows.err
    /\ Len(rows.delivered) = 2
    /\ ~Scannable(rows.delivered[1])
    /\ Scannable(rows.delivered[2])
    /\ fetched.recipients.elems = <<AsRecipient(rows.delivered[2])>>

\* C12: whenever AllRecipients has opened a row cursor, it closes that
\* cursor exactly once before it returns, on every exit path: all rows
\* scanned, some rows skipped, or iteration ended early by the cursor.
C12_CursorClosedOnce ==
    (Fetched /\ ~rows.err) => fetched.closes = 1

\* the cursor failed after delivering a row that was skipped
C12_Witness ==
    /\ Fetched /\ ~rows.err
    /\ rows.rowsErr
    /\ Len(rows.delivered) = 1
    /\ ~Scannable(rows.delivered[1])
    /\ fetched.closes = 1

QuoteFailure(i) == Done(i) /\ GenerateErred(i)

RecipientsFailure(i) == FetcherReturned(i) /\ recipients[i].err # "nil"

\* C15: the failure response does not depend on the failure: any two runs
\* of the handler that end in a collaborator failure, whichever
\* collaborator failed and whatever the error, show the caller the same
\* response: status 500, written once, and an empty body.
C15_FailuresIndistinguishable ==
    \A i, j \in Requests :
        ((QuoteFailure(i) \/ RecipientsFailure(i)) /\ (QuoteFailure(j) \/ RecipientsFailure(j))) =>
            /\ w[i] = w[j]
            /\ w[i].Code = StatusInternalServerError
            /\ w[i].Body = NoBytes

\* two failed runs side by side: one by the quote generator, one by the store
C15_Witness ==
    \E i, j \in Requests :
        /\ QuoteFailure(i) /\ quote[i].err = "TransportError"
        /\ RecipientsFailure(j) /\ recipients[j].err = "QueryError"
        /\ w[i] = w[j]

\* the response of request i was built from what its own calls returned
OwnResponse(i) ==
    (Done(i) /\ w[i].Code = StatusOK) =>
        /\ w[i].Body = << [quote |-> MarshalQuote(quote[i].quote),
                           recipients |-> MarshalRecipients(recipients[i].recipients)] >>
        /\ svr.quoteGenerator = "Forismatic" =>
              w[i].Body[1].quote.lang = LangOf(request[i])

\* requests with the same language code and the same results are answered alike
SameInputsSameResponse(i, j) ==
    (/\ Done(i) /\ Done(j)
     /\ LangOf(request[i]) = LangOf(request[j])
     /\ quote[i] = quote[j]
     /\ recipients[i] = recipients[j]) => w[i] = w[j]

\* no step writes the server value, the Forismatic client or the store
SharedValuesKept == svr' = svr /\ router' = router /\ f' = f /\ table' = table

\* C16: under every interleaving of concurrently handled requests, the
\* response to a request is determined by its own language code and by
\* what its own Generate and AllRecipients calls returned: its quote (with
\* its lang) and its recipients never come from another request, and no
\* step of a handler writes a field of the server, of the Forismatic client
\* or of the Persistence value.
C16_RequestsIsolated ==
    /\ [](\A i \in Requests : OwnResponse(i) /\ \A j \in Requests : SameInputsSameResponse(i, j))
    /\ [][SharedValuesKept]_vars

\* two answered requests, interleaved, that differ in language and recipients
C16_Witness ==
    \E i, j \in Requests :
        /\ Done(i) /\ Done(j)
        /\ w[i].Code = StatusOK /\ w[j].Code = StatusOK
        /\ w[i].Body[1].quote.lang = <<"e", "n">>
        /\ w[j].Body[1].quote.lang = <<>>
        /\ w[j].Body[1].quote.kind = "object"
        /\ w[i].Body[1].recipients # w[j].Body[1].recipients

\* C17: the handler composed with the Forismatic client and the Persistence
\* store: for a request with language code L, an upstream 200 response
\* with body {quoteText: T, quoteAuthor: A} and a recipients table holding
\* the rows R (the SELECT being executed), the response is 200 with the
\* quote {T, A, lang L} and with recipients that are, as a set, R.
C17_EndToEnd ==
    \A i \in Requests :
        (/\ svr = testServer
         /\ Done(i)
         /\ GenerateSucceeded(i)
         /\ recipients[i].err = "nil") =>
            /\ CarriesEnvelope(w[i])
            /\ w[i].Body[1].quote =
                  [kind |-> "object", quoteText |-> BlaBlaBla, quoteAuthor |-> Bob,
                   lang |-> LangOf(request[i])]
            /\ Range(Elements(w[i].Body[1].recipients))
                  = {MarshalRecipient(AsRecipient(x)) : x \in Range(table)}

\* C18: within one request Generate is invoked exactly once and
\* AllRecipients at most once; AllRecipients is invoked only after Generate
\* has returned successfully; on the success path AllRecipients has been
\* invoked exactly once before any byte of the response is written.
C18_CallOrder ==
    \A i \in Requests :
        /\ Arrived(i) => calls[i].Generate = 1
        /\ calls[i].AllRecipients <= 1
        /\ calls[i].AllRecipients = 1 => GenerateSucceeded(i)
        /\ hpc[i] \in {"Generate", "AllRecipients"} => w[i] = NewRecorder
        /\ w[i].Code = StatusOK =>
              /\ calls[i].AllRecipients = 1
              /\ recipients[i].err = "nil"

\* a success response after both calls, and a run that never called the store
C18_Witness ==
    \E i, j \in Requests :
        /\ Done(i) /\ w[i].Code = StatusOK /\ w[i].Body # NoBytes
        /\ calls[i].Generate = 1 /\ calls[i].AllRecipients = 1
        /\ QuoteFailure(j)
        /\ calls[j].Generate = 1 /\ calls[j].AllRecipients = 0

\* the run of the handler is over: it returned, or it panicked
Ended(i) == hpc[i] \in {"done", "panic"}

EmptyFailure == [Code |-> StatusInternalServerError, headerWrites |-> 1, Body |-> NoBytes]

SuccessOutcome(i) ==
    /\ GenerateSucceeded(i)
    /\ FetcherReturned(i) /\ recipients[i].err = "nil"
    /\ CarriesEnvelope(w[i]) /\ w[i].headerWrites = 1

QuoteFailureOutcome(i) ==
    /\ GenerateErred(i)
    /\ calls[i].AllRecipients = 0
    /\ w[i] = EmptyFailure

RecipientsFailureOutcome(i) ==
    /\ GenerateSucceeded(i)
    /\ RecipientsFailure(i)
    /\ w[i] = EmptyFailure

\* C19: every run of the handler ends in exactly one of the outcomes
\* 200 with the quote and recipients body, 500 with an empty body after a
\* quote failure, 500 with an empty body after a recipients failure; the
\* status is written exactly once, and body bytes are written only after
\* status 200.  Stated here for the runs whose Generate call returned.
C19_OneTerminalOutcome ==
    \A i \in Requests :
        /\ w[i].headerWrites <= 1
        /\ w[i].Body # NoBytes => w[i].Code = StatusOK
        /\ (Ended(i) /\ ~quote[i].panicked) =>
              \/ SuccessOutcome(i)
              \/ QuoteFailureOutcome(i)
              \/ RecipientsFailureOutcome(i)

LangEquals == <<"l", "a", "n", "g", "=">>

\* the raw query begins with a lang parameter
LeadsWithLang(q) == Len(q) >= 5 /\ SubSeq(q, 1, 5) = LangEquals

\* v is what follows the first "lang=" of q, up to the next "&" or the end
FirstLangValue(q, v) ==
    /\ Len(q) >= 5 + Len(v)
    /\ SubSeq(q, 6, 5 + Len(v)) = v
    /\ \A k \in 1..Len(v) : v[k] # "&"
    /\ Len(q) > 5 + Len(v) => q[6 + Len(v)] = "&"

\* C20: the language code handed to Generate is the lang query parameter of
\* the request: its first value when it is repeated, the empty string when
\* it is absent or empty.  No request is rejected for its value, so
\* Generate is invoked for every request, the empty code included, and the
\* Forismatic client puts the code it was handed into the upstream query as
\* it is.
C20_LangPassedThrough ==
    \A i \in Requests :
        Arrived(i) =>
            /\ calls[i].Generate = 1
            /\ IF LeadsWithLang(request[i].RawQuery)
               THEN FirstLangValue(request[i].RawQuery, calls[i].lang)
               ELSE calls[i].lang = <<>>
            /\ svr.quoteGenerator = "Forismatic" =>
                  \A t \in ServedTransport :
                      LET sent == Generate([urlParses |-> TRUE], calls[i].lang, t).req
                      IN  /\ sent.sent
                          /\ sent.RawQuery = QueryPrefix \o calls[i].lang

\* a repeated parameter reached Generate, and so did an absent or empty one
C20_Witness ==
    /\ svr.quoteGenerator = "Forismatic"
    /\ \E i \in Requests :
          /\ Len(request[i].RawQuery) > 7
          /\ calls[i].Generate = 1 /\ calls[i].lang = <<"e", "n">>
    /\ \E i \in Requests :
          /\ Arrived(i) /\ Len(request[i].RawQuery) \in {0, 5}
          /\ calls[i].Generate = 1 /\ calls[i].lang = <<>>
          /\ GenerateSucceeded(i)

\* C22: no request blocks on another request: with several requests in
\* flight, a request whose own Generate and AllRecipients calls return
\* reaches the end of its run, even while the collaborator calls of the
\* other requests never return.
C22_NoRequestBlocksAnother == Arrived(1) ~> Ended(1)

\* request 1 was answered while every other request waits for its Generate
C22_Witness ==
    /\ Done(1)
    /\ calls[1].AllRecipients = 1
    /\ \A j \in Requests \ {1} : hpc[j] = "Generate"

\* C23: when Generate succeeds and AllRecipients returns no rows and no
\* error (the result for an empty table), the handler responds 200 and the
\* recipients member of the body is a JSON array, the empty one, as it is
\* an array for a populated table.
C23_EmptyRecipientsIsArray ==
    \A i \in Requests :
        (/\ Done(i)
         /\ GenerateSucceeded(i)
         /\ FetcherReturned(i)
         /\ recipients[i].err = "nil"
         /\ recipients[i].recipients.elems = <<>>) =>
            /\ CarriesEnvelope(w[i])
            /\ w[i].Body[1].recipients = [kind |-> "array", elems |-> <<>>]

(***************************************************************************)
(* Properties of the routed server (checked under SpecRouter)              *)
(***************************************************************************)
\* C13: a request that arrives at the router for /quote is dispatched to
\* handleQuotes: the quote generator is invoked once, with the language
\* code of the request, and a 200 response carries the quote and recipients
\* body; the request is never answered without consulting a collaborator.
C13_QuoteRouteReachesHandler ==
    \A i \in Requests :
        (Arrived(i) /\ request[i].Path = "/quote" /\ request[i].Method = "GET") =>
            /\ calls[i].Generate = 1
            /\ w[i].Code = StatusOK => CarriesEnvelope(w[i])

\* C14: only GET is served on /quote: a request to /quote with another
\* method invokes neither the quote generator nor the recipient store and
\* does not receive the 200 quote and recipients response.
C14_OnlyGetServed ==
    \A i \in Requests :
        (Arrived(i) /\ request[i].Path = "/quote" /\ request[i].Method # "GET") =>
            /\ calls[i] = NoCalls
            /\ ~CarriesEnvelope(w[i])

(***************************************************************************)
(* Properties of a sequence of Generate calls (checked under SpecClient)   *)
(***************************************************************************)
\* the upstream answered 200 with a readable object of two string members
GoodAnswer(t) ==
    /\ t.kind = "response" /\ t.StatusCode = StatusOK /\ ~t.readErr
    /\ t.Body.kind = "object"
    /\ t.Body.quoteText.kind = "string" /\ t.Body.quoteAuthor.kind = "string"

\* C21: after any sequence of Generate calls on a client with a well-formed
\* base URL the transport has been invoked exactly once per call; a failed
\* call is not retried and leaves no quote, and a call is never answered
\* from an earlier response: its result is made of its own language code
\* and of the response to its own request.
C21_OneTransportCallEach ==
    /\ doCalls = Len(history)
    /\ \A k \in 1..Len(history) :
          LET c == history[k] IN
          ~c.result.panicked =>
              IF GoodAnswer(c.transport)
              THEN /\ c.result.err = "nil"
                   /\ c.result.quote = [present |-> TRUE,
                                         Text |-> c.transport.Body.quoteText.s,
                                         Author |-> c.transport.Body.quoteAuthor.s,
                                         Lang |-> c.lang]
              ELSE /\ c.result.err # "nil"
                   /\ c.result.quote = NoQuote

\* the same language code asked twice, answered differently by the upstream
C21_Witness ==
    /\ Len(history) = 2
    /\ doCalls = 2
    /\ history[1].lang = history[2].lang
    /\ history[1].result.quote.present
    /\ history[2].result.quote.present
    /\ history[1].result.quote.Text # history[2].result.quote.Text

(***************************************************************************)
(* Further properties of one Generate call (checked under SpecGenerate)    *)
(***************************************************************************)
\* C26: Generate never crashes, whatever the transport does: for every
\* transport outcome, a transport that returns no response and no error
\* included, the call comes back, and it dereferences no absent response.
C26_GenerateNeverCrashes ==
    /\ gpc # "panic"
    /\ ~generated.panicked

\* C27: every response Generate obtains from the transport has its body
\* closed before Generate returns, on every exit path: a status other than
\* 200, a failed read of the body, a failed decode, success.
C27_BodyClosed ==
    (Returned /\ Answered) => generated.bodyClosed

(***************************************************************************)
(* Further properties of handleQuotes (checked under Spec)                 *)
(***************************************************************************)
\* C28: in the server as func main builds it both collaborators of the
\* handler are present: a request whose quote fetch succeeded has its
\* recipients fetched from a configured fetcher and ends with a 200 or a
\* 500 response, not with a crash on an absent collaborator.
C28_MainServerComplete ==
    \A i \in Requests :
        (svr = mainServer /\ GenerateSucceeded(i)) =>
            /\ hpc[i] # "panic"
            /\ calls[i].AllRecipients = 1
            /\ Done(i) => w[i].Code \in {StatusOK, StatusInternalServerError}

(***************************************************************************)
(* Further properties of AllRecipients (checked under SpecRecipients)      *)
(***************************************************************************)
\* C29: AllRecipients returns no error only when the cursor was iterated
\* to the end of the result set: when iteration stops on a cursor error,
\* after some rows or none, the call reports an error and does not pass
\* the rows read so far for the complete result.
C29_CursorErrorReported ==
    (Fetched /\ ~rows.err /\ rows.rowsErr) => fetched.err # "nil"

\* C24: AllRecipients is read-only: whatever a call does (it succeeds or
\* fails, it skips rows or not), the recipients table holds afterwards what
\* it held before, and the statement executed is always the same SELECT,
\* which takes no parameters.
C24_ReadOnly ==
    [][spc' = "returned" =>
          /\ table' = table
          /\ stmt'.text = "select * from recipients"
          /\ stmt'.nargs = 0]_vars

\* a call that lost a row of a table of two left both rows in the table
C24_Witness ==
    /\ Fetched /\ ~rows.err
    /\ Len(table) = 2
    /\ Len(fetched.recipients.elems) = 1
    /\ stmt = SelectRecipients

====
